---- MODULE Spec2Model ----
(***************************************************************************)
(* Model of the Wizdom / SpeakEasy backend core:                           *)
(*   - backend/gemini_client.py  simplify_large_text_chunked               *)
(*   - backend/pdf_generator.py  generate_filled_form_pdf                  *)
(* Python strings are modelled as sequences of one-character strings, so   *)
(* that split, join, strip, lower and substring tests are computed.        *)
(***************************************************************************)
EXTENDS Integers, Sequences, FiniteSets, TLC

(* ------------------------------ bounds -------------------------------- *)
MaxTextLen == 6
MaxBudget == 3
MaxFields == 12

(* ------------------------- Python string helpers ---------------------- *)
IsSpace(c) == c \in {" ", "\t", "\n"}

\* str.split() with no argument: runs of whitespace separate the words,
\* leading and trailing whitespace give no empty word.
RECURSIVE SplitFrom(_, _, _, _)
SplitFrom(t, i, cur, acc) ==
    IF i > Len(t)
    THEN IF cur = <<>> THEN acc ELSE Append(acc, cur)
    ELSE IF IsSpace(t[i])
         THEN SplitFrom(t, i + 1, <<>>, IF cur = <<>> THEN acc ELSE Append(acc, cur))
         ELSE SplitFrom(t, i + 1, Append(cur, t[i]), acc)

Split(t) == SplitFrom(t, 1, <<>>, <<>>)

\* sep.join(parts)
RECURSIVE Join(_, _)
Join(sep, parts) ==
    IF parts = <<>> THEN <<>>
    ELSE IF Len(parts) = 1 THEN parts[1]
    ELSE parts[1] \o sep \o Join(sep, Tail(parts))

RECURSIVE LStrip(_)
LStrip(s) == IF s # <<>> /\ IsSpace(s[1]) THEN LStrip(Tail(s)) ELSE s

RECURSIVE RStrip(_)
RStrip(s) ==
    IF s # <<>> /\ IsSpace(s[Len(s)]) THEN RStrip(SubSeq(s, 1, Len(s) - 1)) ELSE s

\* str.strip()
Strip(s) == RStrip(LStrip(s))

Space == <<" ">>
BlankLine == <<"\n", "\n">>

(* --------------------------- Python values ---------------------------- *)
None == [kind |-> "none"]
Str(s) == [kind |-> "str", s |-> s]

(* ------------------ simplify_text (external rewrite) ------------------ *)
\* What model.generate_content may hand back as response.text.
ResponseTexts == {None, Str(<<"x">>), Str(<<" ", "y", "\n">>)}

\* (response.text or "").strip()
SimplifyTextResult(raw) == Strip(IF raw.kind = "none" THEN <<>> ELSE raw.s)

(* ------------------------------ state --------------------------------- *)
VARIABLES
    text, chunk_size,          \* arguments of simplify_large_text_chunked
    words, widx,               \* text.split() and the position of the for loop
    chunks, current_chunk, current_length,
    simplified_chunks, combined,
    calls,                     \* arguments of the simplify_text calls made so far
    returns,                   \* values the simplify_text calls have returned, in order
    result,                    \* value returned to the caller, None before that
    pc

chunkVars == <<text, chunk_size, words, widx, chunks, current_chunk, current_length,
               simplified_chunks, combined, calls, returns, result, pc>>

VARIABLES
    form_fields, filled_data,  \* arguments of generate_filled_form_pdf
    field_sections,            \* the groups built by lines 87-95
    section_num,               \* position of the for loop of line 98 (0-based)
    elements,                  \* the flowables appended so far (spacers left out)
    pdf,                       \* what generate_filled_form_pdf returned, None before
    fpc

formVars == <<form_fields, filled_data, field_sections, section_num, elements, pdf, fpc>>

VARIABLES
    pdf_doc,                   \* what pypdf finds in the bytes given to extract_form_fields
    xfields,                   \* the list `fields` of line 28
    schema,                    \* the FormSchema returned, None before
    xerror,                    \* the exception raised to the caller, None if none
    xpc

extractVars == <<pdf_doc, xfields, schema, xerror, xpc>>

VARIABLES
    preq,                      \* the request given to populate_form
    parsed,                    \* json.loads(field_data), None before
    trail,                     \* the checks of populate_form passed so far, in order
    presponse,                 \* the response of populate_form, None before
    ppc

populateVars == <<preq, parsed, trail, presponse, ppc>>

VARIABLES
    sreq,                      \* the request given to a speak entry point
    extracted_text, simplified, translated,
    scalls,                    \* the collaborator calls made so far, in order
    sfailure,                  \* the exception a collaborator raised, None if none
    sresponse,                 \* the response, None before
    spc

speakVars == <<sreq, extracted_text, simplified, translated, scalls, sfailure, sresponse, spc>>

vars == <<chunkVars, formVars, extractVars, populateVars, speakVars>>

\* what each function leaves alone
outsideChunk == <<formVars, extractVars, populateVars, speakVars>>
outsideForm == <<chunkVars, extractVars, populateVars, speakVars>>
outsideExtract == <<chunkVars, formVars, populateVars, speakVars>>
outsideSpeak == <<chunkVars, formVars, extractVars, populateVars>>

\* no speak entry point is running
SpeakIdle ==
    /\ sreq = None
    /\ extracted_text = None
    /\ simplified = None
    /\ translated = None
    /\ scalls = <<>>
    /\ sfailure = None
    /\ sresponse = None
    /\ spc = "idle"

\* populate_form is not running
PopulateIdle ==
    /\ preq = None
    /\ parsed = None
    /\ trail = <<>>
    /\ presponse = None
    /\ ppc = "idle"

\* extract_form_fields is not running
ExtractIdle ==
    /\ pdf_doc = [fault |-> "none", declared |-> FALSE, raw |-> <<>>]
    /\ xfields = <<>>
    /\ schema = None
    /\ xerror = None
    /\ xpc = "idle"

\* generate_filled_form_pdf is not running
FormIdle ==
    /\ form_fields = <<>>
    /\ filled_data = <<>>
    /\ field_sections = <<>>
    /\ section_num = 0
    /\ elements = <<>>
    /\ pdf = None
    /\ fpc = "idle"

\* simplify_large_text_chunked is not running
ChunkIdle ==
    /\ text = <<>>
    /\ chunk_size = 1
    /\ words = <<>>
    /\ widx = 1
    /\ chunks = <<>>
    /\ current_chunk = <<>>
    /\ current_length = 0
    /\ simplified_chunks = <<>>
    /\ combined = <<>>
    /\ calls = <<>>
    /\ returns = <<>>
    /\ result = None
    /\ pc = "idle"

Alphabet == {"a", "b", " "}
Texts == UNION {[1..n -> Alphabet] : n \in 0..MaxTextLen}

InitChunk ==
    /\ text \in Texts
    /\ chunk_size \in 1..MaxBudget
    /\ words = <<>>
    /\ widx = 1
    /\ chunks = <<>>
    /\ current_chunk = <<>>
    /\ current_length = 0
    /\ simplified_chunks = <<>>
    /\ combined = <<>>
    /\ calls = <<>>
    /\ returns = <<>>
    /\ result = None
    /\ pc = "start"
    /\ FormIdle
    /\ ExtractIdle
    /\ PopulateIdle
    /\ SpeakIdle

\* lines 57-60
SplitWords ==
    /\ pc = "start"
    /\ words' = Split(text)
    /\ widx' = 1
    /\ chunks' = <<>>
    /\ current_chunk' = <<>>
    /\ current_length' = 0
    /\ pc' = "loop"
    /\ UNCHANGED <<text, chunk_size, simplified_chunks, combined, calls, returns, result>>
    /\ UNCHANGED outsideChunk

\* the budget test of line 66
OverBudgetTwice(len, budget) == len > 2 * budget
OverBudgetOrEqual(len, budget) == len >= budget
OverBudget(len, budget) == len > budget

\* " ".join(current_chunk), lines 67 and 72
JoinWordsNoSeparator(ws) == Join(<<>>, ws)
JoinWords(ws) == Join(Space, ws)

\* lines 62-69: one iteration of the for loop
LoopWord ==
    /\ pc = "loop"
    /\ widx <= Len(words)
    /\ LET word == words[widx]
           grown == Append(current_chunk, word)
           len == current_length + Len(word) + 1
       IN IF OverBudget(len, chunk_size)
          THEN /\ chunks' = Append(chunks, JoinWords(grown))
               /\ current_chunk' = <<>>
               /\ current_length' = 0
          ELSE /\ chunks' = chunks
               /\ current_chunk' = grown
               /\ current_length' = len
    /\ widx' = widx + 1
    /\ UNCHANGED <<text, chunk_size, words, simplified_chunks, combined, calls, returns,
                   result, pc>>
    /\ UNCHANGED outsideChunk

FlushChunkDropsTail ==
    /\ pc = "loop"
    /\ widx > Len(words)
    /\ chunks' = chunks
    /\ pc' = "simplify"
    /\ UNCHANGED <<text, chunk_size, words, widx, current_chunk, current_length,
                   simplified_chunks, combined, calls, returns, result>>
    /\ UNCHANGED outsideChunk

\* lines 71-72: the trailing partial chunk
FlushChunk ==
    /\ pc = "loop"
    /\ widx > Len(words)
    /\ chunks' = IF current_chunk # <<>>
                 THEN Append(chunks, JoinWords(current_chunk))
                 ELSE chunks
    /\ pc' = "simplify"
    /\ UNCHANGED <<text, chunk_size, words, widx, current_chunk, current_length,
                   simplified_chunks, combined, calls, returns, result>>
    /\ UNCHANGED outsideChunk

\* the argument of the next call of the list comprehension of line 75
ChunkCallArgWholeSoFar(k) == Join(Space, SubSeq(chunks, 1, k))
ChunkCallArg(k) == chunks[k]

\* line 75: simplify_text(chunk) is entered for the next chunk
ChunkCall ==
    /\ pc = "simplify"
    /\ Len(simplified_chunks) < Len(chunks)
    /\ calls' = Append(calls, ChunkCallArg(Len(simplified_chunks) + 1))
    /\ pc' = "chunk_call"
    /\ UNCHANGED <<text, chunk_size, words, widx, chunks, current_chunk, current_length,
                   simplified_chunks, combined, returns, result>>
    /\ UNCHANGED outsideChunk

\* line 75 with lines 39-40: the call returns its stripped text
ChunkCallReturns ==
    /\ pc = "chunk_call"
    /\ \E raw \in ResponseTexts :
          /\ simplified_chunks' = Append(simplified_chunks, SimplifyTextResult(raw))
          /\ returns' = Append(returns, SimplifyTextResult(raw))
    /\ pc' = "simplify"
    /\ UNCHANGED <<text, chunk_size, words, widx, chunks, current_chunk, current_length,
                   combined, calls, result>>
    /\ UNCHANGED outsideChunk

ChunkCallSwallowsError ==
    /\ pc = "chunk_call"
    /\ simplified_chunks' = Append(simplified_chunks, <<>>)
    /\ pc' = "simplify"
    /\ UNCHANGED <<text, chunk_size, words, widx, chunks, current_chunk, current_length,
                   combined, calls, returns, result>>
    /\ UNCHANGED outsideChunk

\* line 75 with line 39: the provider call raises; nothing catches it
ChunkCallRaises ==
    /\ pc = "chunk_call"
    /\ pc' = "raised"
    /\ UNCHANGED <<text, chunk_size, words, widx, chunks, current_chunk, current_length,
                   simplified_chunks, combined, calls, returns, result>>
    /\ UNCHANGED outsideChunk

\* the text handed to the final pass, line 78
CombineReversed(parts) ==
    Join(BlankLine, [i \in 1..Len(parts) |-> parts[Len(parts) + 1 - i]])
Combine(parts) == Join(BlankLine, parts)

\* lines 78-79: join the simplified chunks and enter the final simplify_text call
FinalCall ==
    /\ pc = "simplify"
    /\ Len(simplified_chunks) = Len(chunks)
    /\ combined' = Combine(simplified_chunks)
    /\ calls' = Append(calls, combined')
    /\ pc' = "final_call"
    /\ UNCHANGED <<text, chunk_size, words, widx, chunks, current_chunk, current_length,
                   simplified_chunks, returns, result>>
    /\ UNCHANGED outsideChunk

\* line 79: the final call returns and its value is the function's value
FinalCallReturns ==
    /\ pc = "final_call"
    /\ \E raw \in ResponseTexts :
          /\ result' = Str(SimplifyTextResult(raw))
          /\ returns' = Append(returns, SimplifyTextResult(raw))
    /\ pc' = "returned"
    /\ UNCHANGED <<text, chunk_size, words, widx, chunks, current_chunk, current_length,
                   simplified_chunks, combined, calls>>
    /\ UNCHANGED outsideChunk

\* line 79 with line 39: the final call raises
FinalCallRaises ==
    /\ pc = "final_call"
    /\ pc' = "raised"
    /\ UNCHANGED <<text, chunk_size, words, widx, chunks, current_chunk, current_length,
                   simplified_chunks, combined, calls, returns, result>>
    /\ UNCHANGED outsideChunk

NextChunk ==
    \/ SplitWords
    \/ LoopWord
    \/ FlushChunk
    \/ ChunkCall
    \/ ChunkCallReturns
    \/ ChunkCallRaises
    \/ FinalCall
    \/ FinalCallReturns
    \/ FinalCallRaises

SpecChunk == InitChunk /\ [][NextChunk]_vars

(* ======================= generate_filled_form_pdf ====================== *)
SectionSize == 5

BoolVal(b) == [kind |-> "bool", b |-> b]
IntVal(n) == [kind |-> "int", n |-> n]

\* Python truthiness of a JSON value: `not value`
Falsy(v) ==
    \/ v.kind = "none"
    \/ v.kind = "str" /\ v.s = <<>>
    \/ v.kind = "bool" /\ ~v.b
    \/ v.kind = "int" /\ v.n = 0

Digits == <<"0", "1", "2", "3", "4", "5", "6", "7", "8", "9">>

RECURSIVE NatToStr(_)
NatToStr(n) ==
    IF n < 10 THEN <<Digits[n + 1]>> ELSE NatToStr(n \div 10) \o <<Digits[(n % 10) + 1]>>

\* str(value)
PyStr(v) ==
    CASE v.kind = "str" -> v.s
      [] v.kind = "none" -> <<"N", "o", "n", "e">>
      [] v.kind = "bool" -> IF v.b THEN <<"T", "r", "u", "e">> ELSE <<"F", "a", "l", "s", "e">>
      [] v.kind = "int" -> NatToStr(v.n)

UpperLetters == <<"A", "B", "C", "D", "E", "F", "G", "H", "I", "J", "K", "L", "M", "N", "O", "P", "Q", "R", "S", "T", "U", "V", "W", "X", "Y", "Z">>
LowerLetters == <<"a", "b", "c", "d", "e", "f", "g", "h", "i", "j", "k", "l", "m", "n", "o", "p", "q", "r", "s", "t", "u", "v", "w", "x", "y", "z">>

LowerChar(c) ==
    IF \E i \in 1..Len(UpperLetters) : UpperLetters[i] = c
    THEN LowerLetters[CHOOSE i \in 1..Len(UpperLetters) : UpperLetters[i] = c]
    ELSE c

\* str.lower()
Lower(s) == [i \in 1..Len(s) |-> LowerChar(s[i])]

\* sub in s
Contains(s, sub) ==
    \E i \in 0..(Len(s) - Len(sub)) : SubSeq(s, i + 1, i + Len(sub)) = sub

\* the list of line 117
Affirmatives == {<<"y", "e", "s">>, <<"/", "y", "e", "s">>, <<"o", "n">>, <<"/", "o", "n">>, <<"t", "r", "u", "e">>}

\* the display literals of lines 113, 118 and 120; "(check)" and "(box)" stand
\* for the one-character marks U+2713 and U+2610
NotProvided == <<"[", "N", "o", "t", " ", "p", "r", "o", "v", "i", "d", "e", "d", "]">>
YesMark == <<"(check)", " ", "Y", "e", "s">>
NoMark == <<"(box)", " ", "N", "o">>

\* line 116: str(value).lower().strip()
CheckboxNormaliseNoLower(v) == Strip(PyStr(v))
CheckboxNormalise(v) == Strip(Lower(PyStr(v)))

DisplayValueTypeFirst(field_type, value) ==
    IF field_type = "checkbox"
    THEN IF \E a \in Affirmatives : Contains(CheckboxNormalise(value), a)
         THEN YesMark ELSE NoMark
    ELSE IF Falsy(value) THEN NotProvided ELSE PyStr(value)

\* lines 111-122: the display string of a field whose name is a key of the map
DisplayValue(field_type, value) ==
    IF Falsy(value) THEN NotProvided
    ELSE IF field_type = "checkbox"
         THEN IF \E a \in Affirmatives : Contains(CheckboxNormalise(value), a)
              THEN YesMark ELSE NoMark
         ELSE PyStr(value)

RECURSIVE GroupLoopDropsRemainder(_, _, _, _)
GroupLoopDropsRemainder(fields, idx, current_section, acc) ==
    IF idx >= Len(fields) THEN acc
    ELSE LET grown == Append(current_section, fields[idx + 1])
         IN IF Len(grown) = 5
            THEN GroupLoopDropsRemainder(fields, idx + 1, <<>>, Append(acc, grown))
            ELSE GroupLoopDropsRemainder(fields, idx + 1, grown, acc)

\* lines 91-95: the grouping loop, idx 0-based as enumerate gives it
RECURSIVE GroupLoop(_, _, _, _)
GroupLoop(fields, idx, current_section, acc) ==
    IF idx >= Len(fields) THEN acc
    ELSE LET grown == Append(current_section, fields[idx + 1])
         IN IF Len(grown) = SectionSize \/ idx = Len(fields) - 1
            THEN GroupLoop(fields, idx + 1, <<>>, Append(acc, grown))
            ELSE GroupLoop(fields, idx + 1, grown, acc)

\* lines 100-127: the table rows of one section
RECURSIVE TableDataAbsentAsEmpty(_, _)
TableDataAbsentAsEmpty(section_fields, data) ==
    IF section_fields = <<>> THEN <<>>
    ELSE LET field_info == Head(section_fields)
             value == IF field_info.name \in DOMAIN data
                      THEN data[field_info.name] ELSE Str(<<>>)
         IN <<[name |-> field_info.name,
               display |-> DisplayValue(field_info.type, value)]>>
            \o TableDataAbsentAsEmpty(Tail(section_fields), data)

RECURSIVE TableData(_, _)
TableData(section_fields, data) ==
    IF section_fields = <<>> THEN <<>>
    ELSE LET field_info == Head(section_fields)
             rest == TableData(Tail(section_fields), data)
         IN IF field_info.name \notin DOMAIN data
            THEN rest
            ELSE <<[name |-> field_info.name,
                    display |-> DisplayValue(field_info.type, data[field_info.name])]>>
                 \o rest

\* line 134
SectionNumber(num) == num + 1

\* the supplied values: the value stored under key k, when k is a key
ValuePool ==
    << Str(<<>>), Str(<<" ">>), Str(<<"O", "f", "f">>), Str(<<"4", "2">>),
       Str(<<"/", "Y", "e", "s">>), None, Str(<<" ", "T", "R", "U", "E", " ">>), BoolVal(FALSE),
       IntVal(0), IntVal(42), Str(<<"m", "o", "n", "e", "y">>), BoolVal(TRUE) >>

ValueOfKey(k) == ValuePool[((k + Len(ValuePool) - 1) % Len(ValuePool)) + 1]

\* the field types the extractor gives, laid out so that every value meets a
\* checkbox field and a field of another type
TypePools == << <<"text", "checkbox">>, <<"checkbox", "dropdown">>,
                <<"signature", "checkbox">> >>
TypeRotations == 2

\* field names are 1..n in discovery order; key 0 of the map names no field
Schemas ==
    {[i \in 1..n |-> [name |-> i, type |-> TypePools[r][(i % 2) + 1]]] :
        n \in 0..MaxFields, r \in 1..TypeRotations}

InitForm ==
    /\ form_fields \in Schemas
    /\ \E keys \in SUBSET (0..Len(form_fields)) :
          filled_data = [k \in keys |-> ValueOfKey(k)]
    /\ field_sections = <<>>
    /\ section_num = 0
    /\ elements = <<>>
    /\ pdf = None
    /\ fpc = "header"
    /\ ChunkIdle
    /\ ExtractIdle
    /\ PopulateIdle
    /\ SpeakIdle

\* lines 81-95: title block, timestamp, and the grouping of the fields
GroupFields ==
    /\ fpc = "header"
    /\ elements' = <<[kind |-> "title"], [kind |-> "timestamp"]>>
    /\ field_sections' = GroupLoop(form_fields, 0, <<>>, <<>>)
    /\ section_num' = 0
    /\ fpc' = "sections"
    /\ UNCHANGED <<form_fields, filled_data, pdf>>
    /\ UNCHANGED outsideForm

\* lines 98-166: one iteration of the section loop
RenderSection ==
    /\ fpc = "sections"
    /\ section_num < Len(field_sections)
    /\ LET table_data == TableData(field_sections[section_num + 1], filled_data)
       IN elements' =
             IF table_data = <<>> THEN elements
             ELSE elements \o <<[kind |-> "header", number |-> SectionNumber(section_num)],
                                [kind |-> "table", rows |-> table_data]>>
    /\ section_num' = section_num + 1
    /\ UNCHANGED <<form_fields, filled_data, field_sections, pdf, fpc>>
    /\ UNCHANGED outsideForm

\* lines 168-187: footer, then doc.build renders the flowables to bytes
BuildPdf ==
    /\ fpc = "sections"
    /\ section_num = Len(field_sections)
    /\ elements' = Append(elements, [kind |-> "footer"])
    /\ pdf' = [kind |-> "pdf", elements |-> elements']
    /\ fpc' = "built"
    /\ UNCHANGED <<form_fields, filled_data, field_sections, section_num>>
    /\ UNCHANGED outsideForm

\* line 185: the layout engine raises; nothing is returned
BuildPdfRaises ==
    /\ fpc = "sections"
    /\ section_num = Len(field_sections)
    /\ elements' = Append(elements, [kind |-> "footer"])
    /\ fpc' = "raised"
    /\ UNCHANGED <<form_fields, filled_data, field_sections, section_num, pdf>>
    /\ UNCHANGED outsideForm

NextForm ==
    \/ GroupFields
    \/ RenderSection
    \/ BuildPdf
    \/ BuildPdfRaises

SpecForm == InitForm /\ [][NextForm]_vars

(* ========================= extract_form_fields ========================= *)
MaxRawFields == 3

\* the field names pypdf reports: "f1", "f2", ...
NameOf(i) == <<"f">> \o NatToStr(i)

\* the field dictionaries pypdf may report: /FT and /V as Python values,
\* Str(<<>>) where the key is missing (the default of .get)
RawKinds ==
    << [ft |-> Str(<<"/", "T", "x">>), v |-> Str(<<"J", "a", "n", "e">>)],
       [ft |-> Str(<<"/", "B", "t", "n">>), v |-> Str(<<"/", "Y", "e", "s">>)],
       [ft |-> Str(<<"/", "C", "h">>), v |-> Str(<<>>)],
       [ft |-> Str(<<"/", "S", "i", "g">>), v |-> None],
       [ft |-> Str(<<>>), v |-> IntVal(7)],
       [ft |-> Str(<<"/", "X", "x">>), v |-> IntVal(0)],
       [ft |-> IntVal(3), v |-> Str(<<"x">>)] >>

\* reader.get_fields() as a list of (name, dictionary) in discovery order; a
\* dict has pairwise distinct keys
RawFieldLists ==
    {[i \in 1..n |-> [name |-> NameOf(IF rev THEN n + 1 - i ELSE i),
                      ft |-> RawKinds[k[i]].ft,
                      v |-> RawKinds[k[i]].v]] :
        <<n, k, rev>> \in
            UNION {{<<m, kk, r>> : kk \in [1..m -> 1..Len(RawKinds)], r \in BOOLEAN} :
                       m \in 0..MaxRawFields}}

\* fault "open": PdfReader raises; "fields": get_fields raises; declared is
\* FALSE when get_fields() returns None
PdfDocs ==
    {[fault |-> "open", declared |-> FALSE, raw |-> <<>>],
     [fault |-> "fields", declared |-> TRUE, raw |-> <<>>],
     [fault |-> "none", declared |-> FALSE, raw |-> <<>>]}
    \cup {[fault |-> "none", declared |-> TRUE, raw |-> r] : r \in RawFieldLists}

\* line 25: `not reader.get_fields()`
NoFieldsOnlyNone(doc) == ~doc.declared
NoFields(doc) == ~doc.declared \/ doc.raw = <<>>

RECURSIVE StripSlashLeft(_)
StripSlashLeft(s) == IF s # <<>> /\ s[1] = "/" THEN StripSlashLeft(Tail(s)) ELSE s

RECURSIVE StripSlashRight(_)
StripSlashRight(s) ==
    IF s # <<>> /\ s[Len(s)] = "/"
    THEN StripSlashRight(SubSeq(s, 1, Len(s) - 1)) ELSE s

\* .strip("/")
StripSlash(s) == StripSlashRight(StripSlashLeft(s))

\* lines 34-41: type_mapping.get(field_type, "text")
FriendlyType(field_type) ==
    CASE field_type = <<"T", "x">> -> "text"
      [] field_type = <<"C", "h">> -> "dropdown"
      [] field_type = <<"B", "t", "n">> -> "checkbox"
      [] field_type = <<"S", "i", "g">> -> "signature"
      [] OTHER -> "text"

\* line 46: str(field_value) if field_value else ""
FieldValue(v) == IF Falsy(v) THEN <<>> ELSE PyStr(v)

\* lines 43-47
FormFieldOf(raw_field) ==
    [name |-> raw_field.name,
     type |-> FriendlyType(StripSlash(raw_field.ft.s)),
     value |-> FieldValue(raw_field.v)]

\* line 52: raise ValueError(f"Failed to extract form fields: {str(e)}")
ExtractionError(cause) ==
    [type |-> "ValueError", prefix |-> "Failed to extract form fields: ", cause |-> cause]

InitExtract ==
    /\ pdf_doc \in PdfDocs
    /\ xfields = <<>>
    /\ schema = None
    /\ xerror = None
    /\ xpc = "start"
    /\ ChunkIdle
    /\ FormIdle
    /\ PopulateIdle
    /\ SpeakIdle

\* line 22: PdfReader(io.BytesIO(pdf_bytes))
OpenReader ==
    /\ xpc = "start"
    /\ pdf_doc.fault # "open"
    /\ xpc' = "check"
    /\ UNCHANGED <<pdf_doc, xfields, schema, xerror>>
    /\ UNCHANGED outsideExtract

\* line 22 raising, caught at line 51
OpenReaderRaises ==
    /\ xpc = "start"
    /\ pdf_doc.fault = "open"
    /\ xerror' = ExtractionError("PdfReadError")
    /\ xpc' = "raised"
    /\ UNCHANGED <<pdf_doc, xfields, schema>>
    /\ UNCHANGED outsideExtract

\* line 25 raising, caught at line 51
GetFieldsRaises ==
    /\ xpc = "check"
    /\ pdf_doc.fault = "fields"
    /\ xerror' = ExtractionError("get_fields")
    /\ xpc' = "raised"
    /\ UNCHANGED <<pdf_doc, xfields, schema>>
    /\ UNCHANGED outsideExtract

\* lines 25-26: no form fields, a FormSchema without fields is returned
ReturnNoFields ==
    /\ xpc = "check"
    /\ pdf_doc.fault = "none"
    /\ NoFields(pdf_doc)
    /\ schema' = [has_form_fields |-> FALSE, fields |-> <<>>]
    /\ xpc' = "returned"
    /\ UNCHANGED <<pdf_doc, xfields, xerror>>
    /\ UNCHANGED outsideExtract

\* lines 25 and 28: there are fields, the loop starts
StartFieldLoop ==
    /\ xpc = "check"
    /\ pdf_doc.fault = "none"
    /\ ~NoFields(pdf_doc)
    /\ xfields' = <<>>
    /\ xpc' = "fields"
    /\ UNCHANGED <<pdf_doc, schema, xerror>>
    /\ UNCHANGED outsideExtract

\* lines 29-47: one iteration of the loop over get_fields().items()
ExtractField ==
    /\ xpc = "fields"
    /\ Len(xfields) < Len(pdf_doc.raw)
    /\ pdf_doc.raw[Len(xfields) + 1].ft.kind = "str"
    /\ xfields' = Append(xfields, FormFieldOf(pdf_doc.raw[Len(xfields) + 1]))
    /\ UNCHANGED <<pdf_doc, schema, xerror, xpc>>
    /\ UNCHANGED outsideExtract

\* line 30 raising (/FT is no string, it has no strip), caught at line 51
ExtractFieldRaises ==
    /\ xpc = "fields"
    /\ Len(xfields) < Len(pdf_doc.raw)
    /\ pdf_doc.raw[Len(xfields) + 1].ft.kind # "str"
    /\ xerror' = ExtractionError("AttributeError")
    /\ xpc' = "raised"
    /\ UNCHANGED <<pdf_doc, xfields, schema>>
    /\ UNCHANGED outsideExtract

\* line 49
ReturnSchema ==
    /\ xpc = "fields"
    /\ Len(xfields) = Len(pdf_doc.raw)
    /\ schema' = [has_form_fields |-> TRUE, fields |-> xfields]
    /\ xpc' = "returned"
    /\ UNCHANGED <<pdf_doc, xfields, xerror>>
    /\ UNCHANGED outsideExtract

NextExtract ==
    \/ OpenReader
    \/ OpenReaderRaises
    \/ GetFieldsRaises
    \/ ReturnNoFields
    \/ StartFieldLoop
    \/ ExtractField
    \/ ExtractFieldRaises
    \/ ReturnSchema

SpecExtract == InitExtract /\ [][NextExtract]_vars

(* ============================ populate_form ============================ *)
JsonSpace(c) == c \in {" ", "\t", "\n", "\r"}

RECURSIVE JsonLStrip(_)
JsonLStrip(s) == IF s # <<>> /\ JsonSpace(s[1]) THEN JsonLStrip(Tail(s)) ELSE s

RECURSIVE JsonRStrip(_)
JsonRStrip(s) ==
    IF s # <<>> /\ JsonSpace(s[Len(s)]) THEN JsonRStrip(SubSeq(s, 1, Len(s) - 1)) ELSE s

JsonStrip(s) == JsonRStrip(JsonLStrip(s))

IsDigit(c) == \E d \in 1..Len(Digits) : Digits[d] = c

DigitValue(c) == (CHOOSE d \in 1..Len(Digits) : Digits[d] = c) - 1

RECURSIVE DigitsToNat(_)
DigitsToNat(s) ==
    IF s = <<>> THEN 0
    ELSE 10 * DigitsToNat(SubSeq(s, 1, Len(s) - 1)) + DigitValue(s[Len(s)])

NotJson == [ok |-> FALSE]

\* json.loads restricted to the grammar the texts of FieldDataTexts use:
\*   value  ::= object | "[" ws "]" | scalar
\*   object ::= "{" ws "}" | "{" ws string ws ":" ws scalar ws "}"
\*   scalar ::= "null" | digits | string      string ::= '"' plain characters '"'
\* A text of this grammar parses as json.loads parses it; every other text of
\* FieldDataTexts is one json.loads rejects with JSONDecodeError.
ParseJsonScalar(t) ==
    IF t = <<"n", "u", "l", "l">> THEN [ok |-> TRUE, kind |-> "scalar", val |-> None]
    ELSE IF /\ t # <<>>
            /\ \A i \in 1..Len(t) : IsDigit(t[i])
            /\ (Len(t) = 1 \/ t[1] # "0")
    THEN [ok |-> TRUE, kind |-> "scalar", val |-> IntVal(DigitsToNat(t))]
    ELSE IF /\ Len(t) >= 2
            /\ t[1] = "\"" /\ t[Len(t)] = "\""
            /\ \A i \in 2..Len(t) - 1 : t[i] \notin {"\"", "\\"}
    THEN [ok |-> TRUE, kind |-> "string", val |-> Str(SubSeq(t, 2, Len(t) - 1))]
    ELSE NotJson

ParseJsonPair(inner) ==
    IF inner[1] # "\"" \/ ~\E j \in 2..Len(inner) : inner[j] = "\"" THEN NotJson
    ELSE LET close == CHOOSE j \in 2..Len(inner) :
                          inner[j] = "\"" /\ \A h \in 2..j - 1 : inner[h] # "\""
             key == SubSeq(inner, 2, close - 1)
             rest == JsonLStrip(SubSeq(inner, close + 1, Len(inner)))
         IN IF rest = <<>> \/ rest[1] # ":" \/ \E h \in 1..Len(key) : key[h] = "\\"
            THEN NotJson
            ELSE LET value == ParseJsonScalar(JsonStrip(Tail(rest)))
                 IN IF value.ok
                    THEN [ok |-> TRUE, kind |-> "object", map |-> [k \in {key} |-> value.val]]
                    ELSE NotJson

ParseJson(field_data) ==
    LET t == JsonStrip(field_data) IN
    IF t = <<>> THEN NotJson
    ELSE IF t[1] = "{"
    THEN IF Len(t) < 2 \/ t[Len(t)] # "}" THEN NotJson
         ELSE LET inner == JsonStrip(SubSeq(t, 2, Len(t) - 1))
              IN IF inner = <<>> THEN [ok |-> TRUE, kind |-> "object", map |-> <<>>]
                 ELSE ParseJsonPair(inner)
    ELSE IF t[1] = "["
    THEN IF Len(t) >= 2 /\ t[Len(t)] = "]" /\ JsonStrip(SubSeq(t, 2, Len(t) - 1)) = <<>>
         THEN [ok |-> TRUE, kind |-> "array", items |-> <<>>]
         ELSE NotJson
    ELSE ParseJsonScalar(t)

\* line 295: len(filled_data) raises TypeError for a number or null
HasLen(value) == value.kind \in {"object", "array", "string"}

\* filled_data as generate_filled_form_pdf reads it (`in` and `[]`): a dict by
\* its keys; an empty list holds no name
FilledDataOf(value) ==
    CASE value.kind = "object" -> value.map
      [] value.kind = "array" /\ value.items = <<>> -> <<>>

\* the field_data form values tried
FieldDataTexts ==
    { <<>>,
      <<" ", " ">>,
      <<"{">>,
      <<"{", "'", "f", "1", "'", ":", "1", "}">>,
      <<"{", "}">>,
      <<"{", "\"", "f", "1", "\"", ":", "\"", "x", "\"", "}">>,
      <<" ", "{", "\"", "f", "2", "\"", ":", " ", "\"", "\"", "}">>,
      <<"{", "\"", "z", "\"", ":", "7", "}">>,
      <<"[", "]">>,
      <<"7">>,
      <<"n", "u", "l", "l">> }

PdfType == "application/pdf"

\* an empty upload is no PDF; any other upload holds one of PdfDocs
PopulateRequests ==
    {[content_type |-> ct, empty |-> TRUE, field_data |-> fd,
      doc |-> [fault |-> "open", declared |-> FALSE, raw |-> <<>>]] :
        ct \in {PdfType, "text/plain"}, fd \in FieldDataTexts}
    \cup
    {[content_type |-> ct, empty |-> FALSE, field_data |-> fd, doc |-> d] :
        ct \in {PdfType, "text/plain"}, fd \in FieldDataTexts, d \in PdfDocs}

\* _error(msg, code), lines 56-58
ErrorResponse(code, msg) == [status |-> code, kind |-> "error", error |-> msg]

InitPopulate ==
    /\ preq \in PopulateRequests
    /\ parsed = None
    /\ trail = <<>>
    /\ presponse = None
    /\ ppc = "start"
    /\ ChunkIdle
    /\ FormIdle
    /\ ExtractIdle
    /\ SpeakIdle

\* lines 274-276
PopCheckContentType ==
    /\ ppc = "start"
    /\ IF preq.content_type # PdfType
       THEN /\ presponse' = ErrorResponse(415, "Only PDF files are supported.")
            /\ ppc' = "responded"
            /\ trail' = trail
       ELSE /\ presponse' = presponse
            /\ ppc' = "read"
            /\ trail' = Append(trail, "content_type")
    /\ UNCHANGED <<preq, parsed>>
    /\ UNCHANGED <<chunkVars, formVars, extractVars, speakVars>>

\* lines 280-285
PopReadFile ==
    /\ ppc = "read"
    /\ IF preq.empty
       THEN /\ presponse' = ErrorResponse(422, "Uploaded file is empty.")
            /\ ppc' = "responded"
            /\ trail' = trail
       ELSE /\ presponse' = presponse
            /\ ppc' = "field_data"
            /\ trail' = Append(trail, "non_empty")
    /\ UNCHANGED <<preq, parsed>>
    /\ UNCHANGED <<chunkVars, formVars, extractVars, speakVars>>

\* lines 287-289
PopRequireFieldData ==
    /\ ppc = "field_data"
    /\ IF Strip(preq.field_data) = <<>>
       THEN /\ presponse' = ErrorResponse(422, "field_data parameter is required.")
            /\ ppc' = "responded"
       ELSE /\ presponse' = presponse
            /\ ppc' = "parse"
    /\ UNCHANGED <<preq, parsed, trail>>
    /\ UNCHANGED <<chunkVars, formVars, extractVars, speakVars>>

\* lines 292-298, with the TypeError of line 295 going to line 329
PopParseFieldData ==
    /\ ppc = "parse"
    /\ LET value == ParseJson(preq.field_data) IN
       IF ~value.ok
       THEN /\ presponse' = ErrorResponse(422, "Invalid field_data JSON format")
            /\ ppc' = "responded"
            /\ UNCHANGED <<parsed, trail>>
       ELSE IF ~HasLen(value)
       THEN /\ presponse' = ErrorResponse(500, "An error occurred: TypeError")
            /\ ppc' = "responded"
            /\ parsed' = value
            /\ trail' = Append(trail, "json")
       ELSE /\ presponse' = presponse
            /\ ppc' = "call_extract"
            /\ parsed' = value
            /\ trail' = Append(trail, "json")
    /\ UNCHANGED preq
    /\ UNCHANGED <<chunkVars, formVars, extractVars, speakVars>>

\* line 302: extract_form_fields(pdf_bytes) is entered
PopCallExtract ==
    /\ ppc = "call_extract"
    /\ pdf_doc' = preq.doc
    /\ xfields' = <<>>
    /\ schema' = None
    /\ xerror' = None
    /\ xpc' = "start"
    /\ ppc' = "extracting"
    /\ UNCHANGED <<preq, parsed, trail, presponse>>
    /\ UNCHANGED <<chunkVars, formVars, speakVars>>

\* line 302 raising ValueError, caught at line 326
PopExtractFailed ==
    /\ ppc = "extracting"
    /\ xpc = "raised"
    /\ presponse' = ErrorResponse(422, xerror)
    /\ ppc' = "responded"
    /\ UNCHANGED <<preq, parsed, trail>>
    /\ UNCHANGED <<chunkVars, formVars, extractVars, speakVars>>

\* line 305
HasFieldsCheckSkipped(form_schema) == TRUE
HasFieldsCheck(form_schema) == form_schema.has_form_fields

\* lines 305-315: the has-fields check, then generate_filled_form_pdf is entered
PopCheckFieldsAndGenerate ==
    /\ ppc = "extracting"
    /\ xpc = "returned"
    /\ IF ~HasFieldsCheck(schema)
       THEN /\ presponse' = ErrorResponse(422, "PDF has no form fields.")
            /\ ppc' = "responded"
            /\ UNCHANGED <<trail, formVars>>
       ELSE /\ presponse' = presponse
            /\ ppc' = "generating"
            /\ trail' = Append(trail, "has_fields")
            /\ form_fields' = schema.fields
            /\ filled_data' = FilledDataOf(parsed)
            /\ field_sections' = <<>>
            /\ section_num' = 0
            /\ elements' = <<>>
            /\ pdf' = None
            /\ fpc' = "header"
    /\ UNCHANGED <<preq, parsed>>
    /\ UNCHANGED <<chunkVars, extractVars, speakVars>>

\* lines 316-324: the document is streamed back
PopReturnPdf ==
    /\ ppc = "generating"
    /\ fpc = "built"
    /\ presponse' = [status |-> 200, kind |-> "pdf", body |-> pdf]
    /\ ppc' = "responded"
    /\ UNCHANGED <<preq, parsed, trail>>
    /\ UNCHANGED <<chunkVars, formVars, extractVars, speakVars>>

\* line 311 raising: a ValueError is caught at line 326, anything else at 329
PopGenerateFailed ==
    /\ ppc = "generating"
    /\ fpc = "raised"
    /\ \E code \in {422, 500} : presponse' = ErrorResponse(code, "build")
    /\ ppc' = "responded"
    /\ UNCHANGED <<preq, parsed, trail>>
    /\ UNCHANGED <<chunkVars, formVars, extractVars, speakVars>>

NextPopulate ==
    \/ PopCheckContentType
    \/ PopReadFile
    \/ PopRequireFieldData
    \/ PopParseFieldData
    \/ PopCallExtract
    \/ NextExtract
    \/ PopExtractFailed
    \/ PopCheckFieldsAndGenerate
    \/ NextForm
    \/ PopReturnPdf
    \/ PopGenerateFailed

SpecPopulate == InitPopulate /\ [][NextPopulate]_vars

(* ================== speak_text_input, speak_file_input ================= *)
MaxSpeakLen == 5
MaxFileLen == 4
MaxPages == 2

\* payload.text: TranslateIn.text has min_length = 1
SpeakTexts == UNION {[1..n -> {"a", " "}] : n \in 1..MaxSpeakLen}

\* an uploaded byte string; "#" is a byte that is not valid UTF-8
InvalidByte == "#"
ByteStrings == UNION {[1..n -> {"a", " ", InvalidByte}] : n \in 0..MaxFileLen}

\* bytes.decode("utf-8", errors="ignore"): undecodable bytes are dropped
DecodeIgnore(bytes) == SelectSeq(bytes, LAMBDA b : b # InvalidByte)

\* what page.extract_text() may give for a page
PageTexts == {<<>>, <<" ">>, <<"a">>, <<"a", " ", "a", "a">>}

\* what PdfReader finds in an upload: fault "open" when the reader raises,
\* "page" when extracting a page raises
TextPdfs ==
    {[fault |-> "open", pages |-> <<>>]}
    \cup {[fault |-> f, pages |-> ps] :
            f \in {"none", "page"}, ps \in UNION {[1..n -> PageTexts] : n \in 0..MaxPages}}

NoPdf == [fault |-> "open", pages |-> <<>>]
PlainType == "text/plain"
SupportedTypes == {PdfType, PlainType}

RECURSIVE TextParts(_)
\* lines 73-78: the texts of the pages that have any
TextParts(pages) ==
    IF pages = <<>> THEN <<>>
    ELSE IF pages[1] = <<>> THEN TextParts(Tail(pages))
    ELSE <<pages[1]>> \o TextParts(Tail(pages))

Raised(type, stage) == [type |-> type, stage |-> stage]

\* extract_text_from_file, lines 60-88
ExtractTextFromFile(file, content_type) ==
    IF content_type = PlainType
    THEN [ok |-> TRUE, text |-> Strip(DecodeIgnore(file.bytes))]
    ELSE IF content_type = PdfType
    THEN IF file.doc.fault # "none"
         THEN [ok |-> FALSE, cause |-> Raised("ValueError", "extract")]
         ELSE [ok |-> TRUE, text |-> Strip(Join(<<"\n">>, TextParts(file.doc.pages)))]
    ELSE [ok |-> FALSE, cause |-> Raised("ValueError", "extract")]

SpeakRequests ==
    {[endpoint |-> "text", text |-> t] : t \in SpeakTexts}
    \cup {[endpoint |-> "file", content_type |-> PlainType,
           file |-> [bytes |-> b, doc |-> NoPdf]] : b \in ByteStrings}
    \cup {[endpoint |-> "file", content_type |-> PdfType,
           file |-> [bytes |-> <<"%">>, doc |-> d]] : d \in TextPdfs}
    \cup {[endpoint |-> "file", content_type |-> ct,
           file |-> [bytes |-> b, doc |-> NoPdf]] :
             ct \in {PdfType, "image/png"}, b \in {<<>>, <<"a">>}}

\* the exceptions a collaborator may raise
RaiseTypes == {"ValueError", "Exception"}

\* gemini_client.translate_text line 105
TranslateTextResult(raw) == Strip(IF raw.kind = "none" THEN <<>> ELSE raw.s)

\* what synthesize_speech may return
AudioBytes == {<<>>, <<73, 68, 51>>}

\* base64.b64encode(audio_bytes).decode("utf-8"), kept as the encoding of its bytes
B64(bytes) == [b64 |-> bytes]

Call(fn, arg) == [fn |-> fn, arg |-> arg]

\* the rewrite calls of simplify_text(text) and simplify_extracted_text(text):
\* one, with the text as given
RewriteCallsFirstChunk(txt) ==
    <<Call("simplify", SubSeq(txt, 1, IF Len(txt) < MaxBudget THEN Len(txt) ELSE MaxBudget))>>
RewriteCalls(txt) == <<Call("simplify", txt)>>

FailedPrefix == "Simplification, translation, or speech synthesis failed: "

\* speak_text_input lines 124-130
TextError(cause) == ErrorResponse(500, [prefix |-> FailedPrefix, cause |-> cause])

\* speak_file_input lines 183-191
FileError(cause) ==
    IF cause.type = "ValueError"
    THEN ErrorResponse(422, [prefix |-> "", cause |-> cause])
    ELSE ErrorResponse(500, [prefix |-> FailedPrefix, cause |-> cause])

SpeechResponse(txt, audio_bytes) ==
    [status |-> 200, kind |-> "speech", text |-> txt, audio |-> B64(audio_bytes)]

InitSpeak ==
    /\ sreq \in SpeakRequests
    /\ extracted_text = None
    /\ simplified = None
    /\ translated = None
    /\ scalls = <<>>
    /\ sfailure = None
    /\ sresponse = None
    /\ spc = IF sreq.endpoint = "text" THEN "text_simplify" ELSE "file_type"
    /\ ChunkIdle
    /\ FormIdle
    /\ ExtractIdle
    /\ PopulateIdle

\* speak_text_input lines 106-109
SpeakTextSimplify ==
    /\ spc = "text_simplify"
    /\ scalls' = scalls \o RewriteCalls(sreq.text)
    /\ \/ \E raw \in ResponseTexts :
            /\ simplified' = SimplifyTextResult(raw)
            /\ spc' = "text_translate"
            /\ UNCHANGED <<sfailure, sresponse>>
       \/ \E type \in RaiseTypes :
            /\ sfailure' = Raised(type, "simplify")
            /\ sresponse' = TextError(sfailure')
            /\ spc' = "responded"
            /\ UNCHANGED simplified
    /\ UNCHANGED <<sreq, extracted_text, translated>>
    /\ UNCHANGED outsideSpeak

\* speak_text_input lines 111-113
SpeakTextTranslateSwallowsError ==
    /\ spc = "text_translate"
    /\ scalls' = Append(scalls, Call("translate", simplified))
    /\ \/ \E raw \in ResponseTexts :
            /\ translated' = TranslateTextResult(raw)
            /\ UNCHANGED sfailure
       \/ \E type \in RaiseTypes :
            /\ sfailure' = Raised(type, "translate")
            /\ translated' = <<>>
    /\ spc' = "text_synthesize"
    /\ UNCHANGED <<sreq, extracted_text, simplified, sresponse>>
    /\ UNCHANGED outsideSpeak
SpeakTextTranslate ==
    /\ spc = "text_translate"
    /\ scalls' = Append(scalls, Call("translate", simplified))
    /\ \/ \E raw \in ResponseTexts :
            /\ translated' = TranslateTextResult(raw)
            /\ spc' = "text_synthesize"
            /\ UNCHANGED <<sfailure, sresponse>>
       \/ \E type \in RaiseTypes :
            /\ sfailure' = Raised(type, "translate")
            /\ sresponse' = TextError(sfailure')
            /\ spc' = "responded"
            /\ UNCHANGED translated
    /\ UNCHANGED <<sreq, extracted_text, simplified>>
    /\ UNCHANGED outsideSpeak

\* speak_text_input lines 115-123
SpeakTextSynthesize ==
    /\ spc = "text_synthesize"
    /\ scalls' = Append(scalls, Call("synthesize", translated))
    /\ \/ \E audio_bytes \in AudioBytes :
            /\ sresponse' = SpeechResponse(translated, audio_bytes)
            /\ UNCHANGED sfailure
       \/ \E type \in RaiseTypes :
            /\ sfailure' = Raised(type, "synthesize")
            /\ sresponse' = TextError(sfailure')
    /\ spc' = "responded"
    /\ UNCHANGED <<sreq, extracted_text, simplified, translated>>
    /\ UNCHANGED outsideSpeak

\* speak_file_input lines 144-148
SpeakFileCheckType ==
    /\ spc = "file_type"
    /\ IF sreq.content_type \notin SupportedTypes
       THEN /\ sresponse' = ErrorResponse(415, "Only PDF or plain text files are supported.")
            /\ spc' = "responded"
       ELSE /\ sresponse' = sresponse
            /\ spc' = "file_read"
    /\ UNCHANGED <<sreq, extracted_text, simplified, translated, scalls, sfailure>>
    /\ UNCHANGED outsideSpeak

\* speak_file_input lines 150-157
SpeakFileRead ==
    /\ spc = "file_read"
    /\ IF sreq.file.bytes = <<>>
       THEN /\ sresponse' = ErrorResponse(422, "Uploaded file is empty.")
            /\ spc' = "responded"
       ELSE /\ sresponse' = sresponse
            /\ spc' = "file_extract"
    /\ UNCHANGED <<sreq, extracted_text, simplified, translated, scalls, sfailure>>
    /\ UNCHANGED outsideSpeak

\* speak_file_input lines 159-160, a ValueError going to lines 183-185
SpeakFileExtract ==
    /\ spc = "file_extract"
    /\ LET got == ExtractTextFromFile(sreq.file, sreq.content_type) IN
       IF got.ok
       THEN /\ extracted_text' = got.text
            /\ spc' = "file_text"
            /\ UNCHANGED <<sfailure, sresponse>>
       ELSE /\ sfailure' = got.cause
            /\ sresponse' = FileError(got.cause)
            /\ spc' = "responded"
            /\ UNCHANGED extracted_text
    /\ UNCHANGED <<sreq, simplified, translated, scalls>>
    /\ UNCHANGED outsideSpeak

\* line 162: `not extracted_text.strip()`
NoTextNever(txt) == FALSE
NoText(txt) == Strip(txt) = <<>>

\* speak_file_input lines 162-164
SpeakFileRequireText ==
    /\ spc = "file_text"
    /\ IF NoText(extracted_text)
       THEN /\ sresponse' = ErrorResponse(422, "No extractable text found in file.")
            /\ spc' = "responded"
       ELSE /\ sresponse' = sresponse
            /\ spc' = "file_simplify"
    /\ UNCHANGED <<sreq, extracted_text, simplified, translated, scalls, sfailure>>
    /\ UNCHANGED outsideSpeak

\* speak_file_input lines 166-168
SpeakFileSimplify ==
    /\ spc = "file_simplify"
    /\ scalls' = scalls \o RewriteCalls(extracted_text)
    /\ \/ \E raw \in ResponseTexts :
            /\ simplified' = SimplifyTextResult(raw)
            /\ spc' = "file_translate"
            /\ UNCHANGED <<sfailure, sresponse>>
       \/ \E type \in RaiseTypes :
            /\ sfailure' = Raised(type, "simplify")
            /\ sresponse' = FileError(sfailure')
            /\ spc' = "responded"
            /\ UNCHANGED simplified
    /\ UNCHANGED <<sreq, extracted_text, translated>>
    /\ UNCHANGED outsideSpeak

\* speak_file_input lines 170-172
SpeakFileTranslate ==
    /\ spc = "file_translate"
    /\ scalls' = Append(scalls, Call("translate", simplified))
    /\ \/ \E raw \in ResponseTexts :
            /\ translated' = TranslateTextResult(raw)
            /\ spc' = "file_synthesize"
            /\ UNCHANGED <<sfailure, sresponse>>
       \/ \E type \in RaiseTypes :
            /\ sfailure' = Raised(type, "translate")
            /\ sresponse' = FileError(sfailure')
            /\ spc' = "responded"
            /\ UNCHANGED translated
    /\ UNCHANGED <<sreq, extracted_text, simplified>>
    /\ UNCHANGED outsideSpeak

\* speak_file_input lines 174-181
SpeakFileSynthesize ==
    /\ spc = "file_synthesize"
    /\ scalls' = Append(scalls, Call("synthesize", translated))
    /\ \/ \E audio_bytes \in AudioBytes :
            /\ sresponse' = SpeechResponse(translated, audio_bytes)
            /\ UNCHANGED sfailure
       \/ \E type \in RaiseTypes :
            /\ sfailure' = Raised(type, "synthesize")
            /\ sresponse' = FileError(sfailure')
    /\ spc' = "responded"
    /\ UNCHANGED <<sreq, extracted_text, simplified, translated>>
    /\ UNCHANGED outsideSpeak

NextSpeak ==
    \/ SpeakTextSimplify
    \/ SpeakTextTranslate
    \/ SpeakTextSynthesize
    \/ SpeakFileCheckType
    \/ SpeakFileRead
    \/ SpeakFileExtract
    \/ SpeakFileRequireText
    \/ SpeakFileSimplify
    \/ SpeakFileTranslate
    \/ SpeakFileSynthesize

SpecSpeak == InitSpeak /\ [][NextSpeak]_vars

(* ===================== claims: the chunked rewrite ===================== *)
\* the splitting loop and the trailing flush are over
SplitDone == pc \notin {"start", "loop"}

\* s.split(" "): cut at every single space, empty pieces kept
RECURSIVE CutAtSpaces(_, _, _, _)
CutAtSpaces(s, i, cur, acc) ==
    IF i > Len(s) THEN Append(acc, cur)
    ELSE IF s[i] = " " THEN CutAtSpaces(s, i + 1, <<>>, Append(acc, cur))
    ELSE CutAtSpaces(s, i + 1, Append(cur, s[i]), acc)

\* the chunks in order, each cut at its separators
RECURSIVE WordsOfChunks(_)
WordsOfChunks(cs) ==
    IF cs = <<>> THEN <<>>
    ELSE CutAtSpaces(cs[1], 1, <<>>, <<>>) \o WordsOfChunks(Tail(cs))

AllBlank(t) == \A i \in 1..Len(t) : IsSpace(t[i])

\* number of maximal runs of non-whitespace characters of t
WordCount(t) ==
    Cardinality({i \in 1..Len(t) : ~IsSpace(t[i]) /\ (i = 1 \/ IsSpace(t[i - 1]))})

\* C1: once the splitter has run, the chunks cut at their single-space
\* separators give exactly the words of the text in order, no chunk is empty,
\* and a text with no word gives no chunk.
C1_ChunksKeepWordSequence ==
    SplitDone =>
        /\ WordsOfChunks(chunks) = Split(text)
        /\ Len(WordsOfChunks(chunks)) = WordCount(text)
        /\ \A k \in 1..Len(chunks) : chunks[k] # <<>>
        /\ AllBlank(text) => chunks = <<>>

C1_Witness ==
    /\ SplitDone
    /\ Len(chunks) >= 2
    /\ Len(words) > Len(chunks)
    /\ \E i \in 1..Len(text) - 1 : IsSpace(text[i]) /\ IsSpace(text[i + 1])

\* C2 as stated: a text no longer than the budget gives exactly one chunk,
\* equal to the text.
C2_ShortTextIsItsOwnChunk ==
    (SplitDone /\ Len(text) <= chunk_size) => chunks = <<text>>

\* the text has no whitespace but single spaces between its words
SingleSpaced(t) ==
    /\ t # <<>>
    /\ \A i \in 1..Len(t) : IsSpace(t[i]) =>
          /\ t[i] = " "
          /\ i > 1 /\ i < Len(t)
          /\ ~IsSpace(t[i + 1])

\* C2 amended: a text no longer than the budget that holds at least one word
\* gives exactly one chunk, its words joined by single spaces (the text itself
\* when it is single-spaced); a text with no word gives no chunk.
C2_ShortTextOneNormalisedChunk ==
    (SplitDone /\ Len(text) <= chunk_size) =>
        /\ ~AllBlank(text) =>
              /\ Len(chunks) = 1
              /\ CutAtSpaces(chunks[1], 1, <<>>, <<>>) = Split(text)
              /\ Len(chunks[1]) <= Len(text)
        /\ SingleSpaced(text) => chunks = <<text>>
        /\ AllBlank(text) => chunks = <<>>

C2_Witness ==
    /\ SplitDone
    /\ Len(text) <= chunk_size
    /\ Len(words) = 2
    /\ chunks = <<text>>

\* sum of the word lengths of a chunk plus one separator per word
RenderedLength(chunk) == Len(chunk) + 1

LastWordLength(chunk) ==
    LET ws == CutAtSpaces(chunk, 1, <<>>, <<>>) IN Len(ws[Len(ws)])

\* C3 as stated: no emitted chunk has a rendered length above the budget.
C3_ChunkWithinBudget ==
    \A k \in 1..Len(chunks) : RenderedLength(chunks[k]) <= chunk_size

\* C3 amended: every emitted chunk, less its last word and that word's
\* separator, has a rendered length that does not exceed the budget.
C3_ChunkWithinBudgetButLastWord ==
    \A k \in 1..Len(chunks) :
        RenderedLength(chunks[k]) - (LastWordLength(chunks[k]) + 1) <= chunk_size

C3_Witness ==
    /\ SplitDone
    /\ \E k \in 1..Len(chunks) :
          /\ RenderedLength(chunks[k]) > chunk_size
          /\ Len(CutAtSpaces(chunks[k], 1, <<>>, <<>>)) >= 2

\* C4: the rewrite calls are, in order, one per chunk with exactly that chunk
\* as argument, then one consolidation call: never more than N + 1 calls, and
\* exactly N + 1 when the function returns.
C4_OneCallPerChunkPlusOne ==
    /\ Len(calls) <= Len(chunks) + 1
    /\ \A k \in 1..Len(calls) : k <= Len(chunks) => calls[k] = chunks[k]
    /\ pc = "returned" =>
          /\ Len(calls) = Len(chunks) + 1
          /\ calls = chunks \o <<combined>>

C4_Witness ==
    /\ pc = "returned"
    /\ Len(chunks) >= 2
    /\ Len(calls) = Len(chunks) + 1
    /\ chunks[1] # chunks[2]

\* C5: when the consolidation call has been entered every chunk call has
\* returned, its argument is the chunk results joined by a blank line in chunk
\* order, and the value returned to the caller is what that call returned.
C5_ConsolidationAfterAllChunks ==
    /\ Len(calls) = Len(chunks) + 1 =>
          /\ SplitDone
          /\ Len(returns) >= Len(chunks)
          /\ calls[Len(calls)] = Join(BlankLine, SubSeq(returns, 1, Len(chunks)))
    /\ pc = "returned" =>
          /\ Len(returns) = Len(chunks) + 1
          /\ result = Str(returns[Len(returns)])

C5_Witness ==
    /\ pc = "returned"
    /\ Len(chunks) >= 2
    /\ returns[1] # returns[2]
    /\ result = Str(returns[Len(returns)])

\* C6: a chunk call that ends without returning a value ends the whole
\* function with the error: no call is added (no retry, no later chunk, no
\* consolidation), nothing is returned, and nothing happens afterwards.
C6_ChunkFailurePropagates ==
    [][/\ (pc = "chunk_call" /\ returns' = returns) =>
              /\ pc' = "raised"
              /\ calls' = calls
              /\ simplified_chunks' = simplified_chunks
              /\ result' = None
       /\ pc = "raised" => (pc' = "raised" /\ calls' = calls /\ result' = None)
      ]_vars

C6_Witness ==
    /\ pc = "raised"
    /\ Len(calls) < Len(chunks)
    /\ Len(returns) = Len(calls) - 1
    /\ Len(returns) >= 1
    /\ result = None

(* ====================== claims: the filled form ======================== *)
Built == fpc = "built"

IsTable(e) == e.kind = "table"
IsHeader(e) == e.kind = "header"

\* the section tables and header bands of the assembled document, in order
Tables == SelectSeq(elements, IsTable)
Headers == SelectSeq(elements, IsHeader)

RECURSIVE RowsOf(_)
RowsOf(tables) == IF tables = <<>> THEN <<>> ELSE Head(tables).rows \o RowsOf(Tail(tables))

AllRows == RowsOf(Tables)

RowsNamed(name) == {j \in 1..Len(AllRows) : AllRows[j].name = name}

DisplayOf(name) == AllRows[CHOOSE j \in RowsNamed(name) : TRUE].display

IsKey(f) == f.name \in DOMAIN filled_data

\* the fields whose name is a key of the map, in schema order
RenderableFields == SelectSeq(form_fields, IsKey)

IsEmptyValue(v) == v = None \/ v = Str(<<>>)

IsBlankValue(v) ==
    \/ v = None
    \/ v.kind = "str" /\ \A i \in 1..Len(v.s) : IsSpace(v.s[i])

\* C7 as stated: a field that is a key of the map with an empty or blank
\* (also whitespace-only) value has one row reading "[Not provided]" whatever
\* its type; a field that is no key has no row.
C7_BlankIsNotProvided ==
    Built =>
        \A i \in 1..Len(form_fields) :
            LET f == form_fields[i] IN
            IF IsKey(f)
            THEN IsBlankValue(filled_data[f.name]) =>
                    /\ Cardinality(RowsNamed(f.name)) = 1
                    /\ DisplayOf(f.name) = NotProvided
            ELSE RowsNamed(f.name) = {}

\* C7 amended: a field that is a key of the map has exactly one row; when its
\* value is empty (the empty string or null) the row reads "[Not provided]"
\* whatever the type; a whitespace-only value is not empty and is rendered by
\* type (negative mark for a checkbox, the value itself otherwise); a field
\* that is no key has no row.
C7_EmptyIsNotProvided ==
    Built =>
        \A i \in 1..Len(form_fields) :
            LET f == form_fields[i] IN
            IF IsKey(f)
            THEN LET v == filled_data[f.name] IN
                 /\ Cardinality(RowsNamed(f.name)) = 1
                 /\ IsEmptyValue(v) => DisplayOf(f.name) = NotProvided
                 /\ (IsBlankValue(v) /\ ~IsEmptyValue(v)) =>
                       DisplayOf(f.name) = IF f.type = "checkbox" THEN NoMark ELSE v.s
            ELSE RowsNamed(f.name) = {}

C7_Witness ==
    /\ Built
    /\ \E i, j, k \in 1..Len(form_fields) :
          /\ IsKey(form_fields[i])
          /\ filled_data[form_fields[i].name] = Str(<<>>)
          /\ form_fields[i].type = "checkbox"
          /\ DisplayOf(form_fields[i].name) = NotProvided
          /\ IsKey(form_fields[j])
          /\ filled_data[form_fields[j].name] = Str(<<" ">>)
          /\ ~IsKey(form_fields[k])

CeilDiv(a, b) == (a + b - 1) \div b

RowNames(rows) == [j \in 1..Len(rows) |-> rows[j].name]
FieldNames(fields) == [j \in 1..Len(fields) |-> fields[j].name]

\* the names shown by each section of the document
SectionNames == [t \in 1..Len(Tables) |-> RowNames(Tables[t].rows)]

\* C9 as stated: k renderable fields give ceil(k/5) sections holding them in
\* order, each but the last with exactly 5 and the last with 1 to 5.
C9_RenderableFieldsInFives ==
    Built =>
        LET k == Len(RenderableFields) IN
        /\ Len(Tables) = CeilDiv(k, 5)
        /\ RowNames(AllRows) = FieldNames(RenderableFields)
        /\ \A t \in 1..Len(Tables) :
              IF t < Len(Tables) THEN Len(Tables[t].rows) = 5
              ELSE Len(Tables[t].rows) \in 1..5

IsNonEmpty(x) == x # <<>>

\* the renderable names of the g-th run of five consecutive schema fields
RunNames(g) ==
    LET lo == 5 * (g - 1) + 1
        hi == IF 5 * g < Len(form_fields) THEN 5 * g ELSE Len(form_fields)
    IN FieldNames(SelectSeq(SubSeq(form_fields, lo, hi), IsKey))

\* C9 amended: the schema fields, renderable or not, are cut into runs of 5
\* consecutive fields (the last run the remaining 1 to 5); every run with a
\* renderable field gives one section holding that run's renderable fields in
\* order, a run with none gives no section.  So the sections hold the
\* renderable fields in order, 1 to 5 each, at most ceil(n/5) sections; when
\* every field is renderable there are ceil(k/5) sections, all but the last of
\* exactly 5 (12 fields: 5, 5, 2), and when none is there are zero sections.
C9_SchemaFieldsInFives ==
    Built =>
        LET n == Len(form_fields)
            k == Len(RenderableFields)
        IN
        /\ SectionNames =
              SelectSeq([g \in 1..CeilDiv(n, 5) |-> RunNames(g)], IsNonEmpty)
        /\ RowNames(AllRows) = FieldNames(RenderableFields)
        /\ \A t \in 1..Len(Tables) : Len(Tables[t].rows) \in 1..5
        /\ Len(Tables) <= CeilDiv(n, 5)
        /\ k = n =>
              /\ Len(Tables) = CeilDiv(k, 5)
              /\ \A t \in 1..Len(Tables) - 1 : Len(Tables[t].rows) = 5
        /\ (k = 12 /\ n = 12) =>
              [t \in 1..Len(Tables) |-> Len(Tables[t].rows)] = <<5, 5, 2>>
        /\ k = 0 => Tables = <<>>

C9_Witness ==
    /\ Built
    /\ Len(form_fields) = 12
    /\ Len(RenderableFields) = 12
    /\ [t \in 1..Len(Tables) |-> Len(Tables[t].rows)] = <<5, 5, 2>>

\* C10: the header bands of the assembled document show the numbers
\* 1, 2, ..., m for its m emitted sections, in order and without gaps.
C10_SectionNumbersGapless ==
    Built => [h \in 1..Len(Headers) |-> Headers[h].number] = [h \in 1..Len(Headers) |-> h]

(* ============== claims: chunk boundaries and document rows ============= *)
\* chunk k was closed by the budget test of the loop, not by the trailing flush
ClosedByBudget(k) ==
    \/ k < Len(chunks)
    \/ pc = "loop"
    \/ current_chunk = <<>>

\* C14: every chunk's space-joined length is at most the budget plus the
\* length of its last word; a chunk closed by the budget test has accumulated
\* length above the budget and, without its last word, at most the budget; and
\* words left over when the loop ends are emitted as a last chunk, which is
\* within the budget.
C14_SoftCeiling ==
    /\ \A k \in 1..Len(chunks) :
          /\ Len(chunks[k]) <= chunk_size + LastWordLength(chunks[k])
          /\ ClosedByBudget(k) =>
                /\ RenderedLength(chunks[k]) > chunk_size
                /\ RenderedLength(chunks[k]) - (LastWordLength(chunks[k]) + 1) <= chunk_size
    /\ (SplitDone /\ current_chunk # <<>>) =>
          /\ chunks # <<>>
          /\ CutAtSpaces(chunks[Len(chunks)], 1, <<>>, <<>>) = current_chunk
          /\ RenderedLength(chunks[Len(chunks)]) <= chunk_size

C14_Witness ==
    /\ SplitDone
    /\ Len(chunks) >= 2
    /\ current_chunk # <<>>
    /\ RenderedLength(chunks[Len(chunks)]) < chunk_size
    /\ Len(CutAtSpaces(chunks[1], 1, <<>>, <<>>)) >= 2
    /\ Len(chunks[1]) = chunk_size + LastWordLength(chunks[1])

\* the place of the field called name in the schema
PositionOf(name) == CHOOSE i \in 1..Len(form_fields) : form_fields[i].name = name

\* C15: the rows of the document are exactly the schema fields whose name is
\* a key of the map, in schema order: a key that names no field gives no row,
\* a field that is no key gives no row, and every section has 1 to 5 rows.
C15_RowsAreKeyedSchemaFields ==
    Built =>
        /\ RowNames(AllRows) = FieldNames(RenderableFields)
        /\ \A j \in 1..Len(AllRows) :
              /\ AllRows[j].name \in DOMAIN filled_data
              /\ \E i \in 1..Len(form_fields) : form_fields[i].name = AllRows[j].name
        /\ \A key \in DOMAIN filled_data :
              (\A i \in 1..Len(form_fields) : form_fields[i].name # key) =>
                  RowsNamed(key) = {}
        /\ \A i \in 1..Len(form_fields) :
              Cardinality(RowsNamed(form_fields[i].name)) =
                  IF IsKey(form_fields[i]) THEN 1 ELSE 0
        /\ \A j \in 1..Len(AllRows) - 1 :
              PositionOf(AllRows[j].name) < PositionOf(AllRows[j + 1].name)
        /\ \A t \in 1..Len(Tables) : Len(Tables[t].rows) \in 1..5

C15_Witness ==
    /\ Built
    /\ 0 \in DOMAIN filled_data
    /\ Len(Tables) >= 2
    /\ Len(AllRows) >= 3
    /\ \E i \in 1..Len(form_fields) : ~IsKey(form_fields[i])

(* ======================= claims: the extractor ========================= *)
\* the document makes some step of extract_form_fields raise
DocFails(doc) ==
    \/ doc.fault # "none"
    \/ doc.declared /\ \E i \in 1..Len(doc.raw) : doc.raw[i].ft.kind # "str"

\* C11: a PDF that declares no form fields gives has_form_fields = FALSE and
\* no fields; any other gives has_form_fields = TRUE with one FormField per
\* declared field, in discovery order, with pairwise distinct names; so
\* has_form_fields holds exactly when the list is non-empty; and a failure
\* gives no schema but one ValueError carrying its cause.
C11_SchemaMatchesDeclaredFields ==
    /\ xpc = "returned" =>
          /\ ~DocFails(pdf_doc)
          /\ xerror = None
          /\ (~pdf_doc.declared \/ pdf_doc.raw = <<>>) =>
                schema = [has_form_fields |-> FALSE, fields |-> <<>>]
          /\ (pdf_doc.declared /\ pdf_doc.raw # <<>>) =>
                /\ schema.has_form_fields
                /\ Len(schema.fields) = Len(pdf_doc.raw)
                /\ \A i \in 1..Len(pdf_doc.raw) : schema.fields[i].name = pdf_doc.raw[i].name
                /\ \A i, j \in 1..Len(schema.fields) :
                      i # j => schema.fields[i].name # schema.fields[j].name
          /\ schema.has_form_fields <=> schema.fields # <<>>
    /\ xpc = "raised" =>
          /\ DocFails(pdf_doc)
          /\ schema = None
          /\ xerror.type = "ValueError"
          /\ xerror.cause =
                CASE pdf_doc.fault = "open" -> "PdfReadError"
                  [] pdf_doc.fault = "fields" -> "get_fields"
                  [] OTHER -> "AttributeError"
    /\ xpc \notin {"returned", "raised"} => (schema = None /\ xerror = None)

C11_Witness ==
    /\ xpc = "returned"
    /\ schema.has_form_fields
    /\ Len(schema.fields) = 3
    /\ schema.fields[1].name = NameOf(3)
    /\ schema.fields[1].type = "checkbox"
    /\ schema.fields[2].type = "dropdown"

(* ========================= claims: populate_form ======================= *)
\* the texts of FieldDataTexts that are JSON documents (RFC 8259)
JsonTexts ==
    { <<"{", "}">>,
      <<"{", "\"", "f", "1", "\"", ":", "\"", "x", "\"", "}">>,
      <<" ", "{", "\"", "f", "2", "\"", ":", " ", "\"", "\"", "}">>,
      <<"{", "\"", "z", "\"", ":", "7", "}">>,
      <<"[", "]">>,
      <<"7">>,
      <<"n", "u", "l", "l">> }

ChecksInOrder == <<"content_type", "non_empty", "json", "has_fields">>

\* C12: when field_data is no valid JSON, or the schema extracted for the
\* request has has_form_fields = FALSE, generate_filled_form_pdf is never
\* entered and the response is a 4xx error without document bytes; the
\* document is generated only after the content-type, non-empty-file,
\* JSON-parse and has-fields checks have passed, in that order.
C12_RejectsBeforeGenerating ==
    LET rejected ==
            \/ preq.field_data \notin JsonTexts
            \/ schema # None /\ ~schema.has_form_fields
    IN
    /\ rejected => fpc = "idle"
    /\ (rejected /\ ppc = "responded") =>
          /\ presponse.status \in 400..499
          /\ presponse.kind = "error"
    /\ \E n \in 0..Len(ChecksInOrder) : trail = SubSeq(ChecksInOrder, 1, n)
    /\ fpc # "idle" => trail = ChecksInOrder
    /\ (ppc = "responded" /\ presponse.kind = "pdf") =>
          (trail = ChecksInOrder /\ fpc = "built" /\ presponse.body = pdf)

C12_Witness ==
    /\ ppc = "responded"
    /\ preq.content_type = PdfType
    /\ ~preq.empty
    /\ preq.field_data \in JsonTexts
    /\ schema # None
    /\ ~schema.has_form_fields
    /\ presponse.status = 422
    /\ fpc = "idle"

(* ====================== claims: the speak entry points ================= *)
\* the upload holds a character that is not whitespace and can be read
HasNonBlankContent(req) ==
    IF req.content_type = PlainType
    THEN \E i \in 1..Len(req.file.bytes) :
            req.file.bytes[i] # InvalidByte /\ ~IsSpace(req.file.bytes[i])
    ELSE /\ req.content_type = PdfType
         /\ req.file.doc.fault = "none"
         /\ \E p \in 1..Len(req.file.doc.pages) :
               \E i \in 1..Len(req.file.doc.pages[p]) : ~IsSpace(req.file.doc.pages[p][i])

Rejectable(req) ==
    \/ req.content_type \notin {"application/pdf", "text/plain"}
    \/ req.file.bytes = <<>>
    \/ ~HasNonBlankContent(req)

\* C13: speak_file_input rejects an upload whose content type is neither PDF
\* nor plain text, whose bytes are empty, or from which no non-blank text can
\* be extracted: the response is a 4xx error and no rewrite, translate or
\* speech-synthesis call has been made.
C13_FileRejectedBeforeCollaborators ==
    (sreq.endpoint = "file" /\ Rejectable(sreq)) =>
        /\ scalls = <<>>
        /\ spc \notin {"file_simplify", "file_translate", "file_synthesize"}
        /\ spc = "responded" =>
              /\ sresponse.kind = "error"
              /\ sresponse.status \in 400..499

C13_Witness ==
    /\ spc = "responded"
    /\ sreq.endpoint = "file"
    /\ sreq.content_type = PdfType
    /\ sreq.file.bytes # <<>>
    /\ sreq.file.doc.fault = "none"
    /\ Len(sreq.file.doc.pages) = MaxPages
    /\ sreq.file.doc.pages[1] = <<" ">>
    /\ sresponse.status = 422
    /\ scalls = <<>>

StageOrder == <<"simplify", "translate", "synthesize">>

StageIndex(stage) == CHOOSE i \in 1..Len(StageOrder) : StageOrder[i] = stage

\* C16: in both speak entry points the collaborator calls are rewrite, then
\* translate, then speech synthesis, each at most once, each given the result
\* of the one before; when one of them raises, it is the last call made, the
\* request is answered with an error that carries the cause and has no text
\* and no audio; only a request with three successful calls gets text and audio.
C16_StagesInOrderFailFast ==
    /\ Len(scalls) <= Len(StageOrder)
    /\ \A i \in 1..Len(scalls) : scalls[i].fn = StageOrder[i]
    /\ Len(scalls) >= 2 => scalls[2].arg = simplified
    /\ Len(scalls) >= 3 => scalls[3].arg = translated
    /\ (sfailure # None /\ sfailure.stage \in {"simplify", "translate", "synthesize"}) =>
          /\ spc = "responded"
          /\ Len(scalls) = StageIndex(sfailure.stage)
          /\ sresponse.kind = "error"
          /\ sresponse.status \in 400..599
          /\ sresponse.error.cause = sfailure
          /\ DOMAIN sresponse \cap {"text", "audio"} = {}
    /\ (spc = "responded" /\ sresponse.kind = "speech") =>
          /\ sfailure = None
          /\ Len(scalls) = Len(StageOrder)
          /\ sresponse.text = translated

C16_Witness ==
    /\ spc = "responded"
    /\ sreq.endpoint = "text"
    /\ sfailure # None
    /\ sfailure.stage = "translate"
    /\ Len(scalls) = 2
    /\ sresponse.status = 500

RECURSIVE WordsOfPages(_)
WordsOfPages(pages) ==
    IF pages = <<>> THEN <<>> ELSE Split(pages[1]) \o WordsOfPages(Tail(pages))

\* the words of the request's text, in order
InputWords(req) ==
    IF req.endpoint = "text" THEN Split(req.text)
    ELSE IF req.content_type = PlainType
    THEN Split(SelectSeq(req.file.bytes, LAMBDA b : b # InvalidByte))
    ELSE WordsOfPages(req.file.doc.pages)

\* C17: the speak entry points never run the chunk splitter; once a request
\* is accepted the rewrite function has been called exactly once, with the
\* whole text (payload.text as sent, or the text extracted from the upload,
\* every word of it), however long that text is.
C17_RewriteGetsWholeText ==
    /\ pc = "idle" /\ chunks = <<>> /\ calls = <<>>
    /\ scalls # <<>> =>
          /\ Cardinality({i \in 1..Len(scalls) : scalls[i].fn = "simplify"}) = 1
          /\ scalls[1].fn = "simplify"
          /\ sreq.endpoint = "text" => scalls[1].arg = sreq.text
          /\ sreq.endpoint = "file" => scalls[1].arg = extracted_text
          /\ Split(scalls[1].arg) = InputWords(sreq)
    /\ (spc = "responded" /\ sresponse.status = 200) => scalls # <<>>

C17_Witness ==
    /\ spc = "responded"
    /\ sresponse.status = 200
    /\ sreq.endpoint = "file"
    /\ Len(scalls[1].arg) > MaxBudget
    /\ Len(Split(scalls[1].arg)) >= 2

====
